---- MODULE Spec2Model ----
(***************************************************************************)
(* Model of GerSmith/stepik_cv_lectures_parser.                            *)
(*                                                                         *)
(*   parse_and_download.py : scan markup files for <img name= src=> lines, *)
(*                           download every reference with retries.        *)
(*   text_recognition.py   : OCR every image of the folder into one        *)
(*                           markdown report.                              *)
(*                                                                         *)
(* Python strings are modelled as sequences of one-character strings, so   *)
(* that lower(), endswith(), the `in` substring test, urlparse(),          *)
(* os.path.splitext() and the ordering used by sorted() are computed       *)
(* character by character as the code computes them.                       *)
(***************************************************************************)
EXTENDS Integers, Sequences, FiniteSets, TLC

VARIABLES
    \* ---- get_file_extension called on its own
    ext_pc, ext_url, ext_ct, ext_ret,
    \* ---- the download stage
    files,          \* folder "pics": filename -> content written (sequence of chunks)
    pc,             \* position of the download stage
    image_list,     \* argument of download_all_images
    idx,            \* position in image_list of the item being processed (1-based)
    success_count,  \* local of download_all_images
    batch_ret,      \* return value of download_all_images, None until it returns
    url, filename, max_retries,   \* arguments of the running download_image
    attempt,        \* loop variable of download_image
    file_path,      \* local of download_image: the computed path, None until computed
    ret,            \* return value of download_image, None while it runs
    \* ---- observations of the download stage (history, not program state)
    files0,         \* the folder when the running call of download_image started
    last_outcome,   \* what the latest attempt of the running call met
    requests_made,  \* requests.get calls of the running call
    opened,         \* paths the running call opened for writing, in order
    seen,           \* the outcomes the attempts of the running call met so far
    partial,        \* paths left partially written by a failed attempt of any call
    fetched,        \* references download_image was invoked with, in order
    results,        \* what each of these invocations returned
    \* ---- the file scanner (main of parse_and_download.py up to the download)
    scan_pc, listing, scan_i, all_results, scan_log,
    \* ---- the report stage (text_recognition.py)
    folder_exists,  \* the folder "pics" is there
    report,         \* lectures.md
    report_pc,      \* position of the report stage
    report_images,  \* images of the running process_all_images_to_md
    report_i,       \* position in images of the image due (1-based)
    dl_file,        \* the file a download_image call is writing, None without one
    dl_rest,        \* the chunks iter_content has yet to yield for it
    \* ---- observations of the report stage (history, not program state)
    report_runs,    \* runs of the report stage started so far
    last_run        \* what the latest run found

extVars    == <<ext_pc, ext_url, ext_ct, ext_ret>>
fetchVars  == <<files, pc, image_list, idx, success_count, batch_ret,
                url, filename, max_retries, attempt, file_path, ret>>
histVars   == <<files0, last_outcome, requests_made, opened, seen, partial,
                fetched, results>>
scanVars   == <<scan_pc, listing, scan_i, all_results, scan_log>>
reportVars == <<folder_exists, report, report_pc, report_images, report_i,
                dl_file, dl_rest,
                report_runs, last_run>>
vars       == <<extVars, fetchVars, histVars, scanVars, reportVars>>

None == "None"
True == "True"
False == "False"
NoPath == <<>>          \* a str variable not assigned yet
NotReturned == <<>>     \* a tuple result not produced yet

\* lectures.md: absent, or the sections written by the run that opened it
NoReport == [exists |-> FALSE, sections |-> <<>>]

\* what the latest run of the report stage found; NoRun before the first
NoRun == [tesseract |-> FALSE, folder |-> FALSE, names |-> {}]

\* the sequences over S of length at most n
RECURSIVE SeqsUpTo(_, _)
SeqsUpTo(S, n) ==
    IF n = 0 THEN {<<>>}
    ELSE LET shorter == SeqsUpTo(S, n - 1)
         IN  shorter \cup {Append(q, x) : q \in shorter, x \in S}

(***************************************************************************)
(* Python str operations                                                   *)
(***************************************************************************)

\* The printable ASCII characters in code-point order (32 .. 126); the grave
\* accent (96) is written "grave".
Ascii == <<" ","!","\"","#","$","%","&","'","(",")","*","+",",","-",".","/","0","1","2","3","4","5","6","7","8","9",":",";","<","=",">","?","@","A","B","C","D","E","F","G","H","I","J","K","L","M","N","O","P","Q","R","S","T","U","V","W","X","Y","Z","[","\\","]","^","_","grave","a","b","c","d","e","f","g","h","i","j","k","l","m","n","o","p","q","r","s","t","u","v","w","x","y","z","{","|","}","~">>

AsciiBase == 31

\* code point of every character, tabulated once
OrdTable ==
    [c \in {Ascii[i] : i \in 1..Len(Ascii)} |->
        AsciiBase + (CHOOSE i \in 1..Len(Ascii) : Ascii[i] = c)]

ord(c) == OrdTable[c]

OrdUpperA == 65
OrdUpperZ == 90
CaseOffset == 32

\* str.lower() on one character, then on a string
lower_char(c) ==
    IF ord(c) >= OrdUpperA /\ ord(c) <= OrdUpperZ THEN Ascii[ord(c) + CaseOffset - AsciiBase] ELSE c

LowerTable == [c \in {Ascii[i] : i \in 1..Len(Ascii)} |-> lower_char(c)]

lower(s) == [i \in 1..Len(s) |-> LowerTable[s[i]]]

\* s.endswith(suffix)
endswith(s, suffix) ==
    /\ Len(suffix) <= Len(s)
    /\ SubSeq(s, Len(s) - Len(suffix) + 1, Len(s)) = suffix

\* sub in s
contains(s, sub) ==
    \E i \in 1..(Len(s) - Len(sub) + 1) : SubSeq(s, i, i + Len(sub) - 1) = sub

\* s.find(c, start) with 1-based positions; 0 when c does not occur from start on
find(s, c, start) ==
    IF \E i \in start..Len(s) : s[i] = c
    THEN CHOOSE i \in start..Len(s) : s[i] = c /\ \A j \in start..(i - 1) : s[j] # c
    ELSE 0

\* s.rfind(c) with 1-based positions; 0 when c does not occur
rfind(s, c) ==
    IF \E i \in 1..Len(s) : s[i] = c
    THEN CHOOSE i \in 1..Len(s) : s[i] = c /\ \A j \in (i + 1)..Len(s) : s[j] # c
    ELSE 0

\* a < b for Python str: code-point order, a proper prefix sorts first
RECURSIVE str_lt(_, _)
str_lt(a, b) ==
    IF b = <<>> THEN FALSE
    ELSE IF a = <<>> THEN TRUE
    ELSE IF a[1] # b[1] THEN ord(a[1]) < ord(b[1])
    ELSE str_lt(Tail(a), Tail(b))

\* sorted(S) for a finite set of strings
RECURSIVE sorted(_)
sorted(S) ==
    IF S = {} THEN <<>>
    ELSE LET m == CHOOSE x \in S : \A y \in S \ {x} : str_lt(x, y)
         IN  <<m>> \o sorted(S \ {m})

(***************************************************************************)
(* urllib.parse.urlparse(url).path                                         *)
(***************************************************************************)

scheme_chars ==
    { "a","b","c","d","e","f","g","h","i","j","k","l","m","n","o","p","q","r","s",
      "t","u","v","w","x","y","z","A","B","C","D","E","F","G","H","I","J","K","L",
      "M","N","O","P","Q","R","S","T","U","V","W","X","Y","Z","0","1","2","3","4",
      "5","6","7","8","9","+","-","." }

isalpha(c) ==
    \/ (ord(c) >= OrdUpperA /\ ord(c) <= OrdUpperZ)
    \/ (ord(c) >= OrdUpperA + CaseOffset /\ ord(c) <= OrdUpperZ + CaseOffset)

uses_params == {
    <<>>,
    <<"f","t","p">>,
    <<"h","d","l">>,
    <<"p","r","o","s","p","e","r","o">>,
    <<"h","t","t","p">>,
    <<"i","m","a","p">>,
    <<"h","t","t","p","s">>,
    <<"s","h","t","t","p">>,
    <<"r","t","s","p">>,
    <<"r","t","s","p","s">>,
    <<"r","t","s","p","u">>,
    <<"s","i","p">>,
    <<"s","i","p","s">>,
    <<"m","m","s">>,
    <<"s","f","t","p">>,
    <<"t","e","l">> }

\* what urlparse hands back when urlsplit raises ValueError
ValueError == <<"ValueError">>

\* s.split(c)
RECURSIVE split(_, _)
split(s, c) ==
    LET i == find(s, c, 1)
    IN  IF i = 0 THEN <<s>>
        ELSE <<SubSeq(s, 1, i - 1)>> \o split(SubSeq(s, i + 1, Len(s)), c)

\* s.partition(c)[0] and s.partition(c)[2]
before_first(s, c) ==
    LET i == find(s, c, 1) IN IF i = 0 THEN s ELSE SubSeq(s, 1, i - 1)

after_first(s, c) ==
    LET i == find(s, c, 1) IN IF i = 0 THEN <<>> ELSE SubSeq(s, i + 1, Len(s))

\* _WHATWG_C0_CONTROL_OR_SPACE, as far as the printable characters go
WHATWG_C0_CONTROL_OR_SPACE == {" "}

\* url.lstrip(_WHATWG_C0_CONTROL_OR_SPACE)
RECURSIVE url_lstrip(_)
url_lstrip(u) ==
    IF u # <<>> /\ u[1] \in WHATWG_C0_CONTROL_OR_SPACE THEN url_lstrip(Tail(u)) ELSE u

digits == {"0","1","2","3","4","5","6","7","8","9"}

HEX_DIGITS == digits \cup {"a","b","c","d","e","f","A","B","C","D","E","F"}

HEXTET_COUNT == 8

\* int(s, 10) for a string of decimal digits
RECURSIVE int10(_)
int10(s) ==
    IF s = <<>> THEN 0
    ELSE 10 * int10(SubSeq(s, 1, Len(s) - 1)) + (ord(s[Len(s)]) - ord("0"))

\* _BaseV4._parse_octet does not raise
parse_octet_ok(o) ==
    /\ o # <<>>
    /\ \A i \in 1..Len(o) : o[i] \in digits
    /\ Len(o) <= 3
    /\ ~ (o # <<"0">> /\ o[1] = "0")
    /\ int10(o) <= 255

\* IPv4Address(s) does not raise
is_IPv4Address(s) ==
    /\ ~ contains(s, <<"/">>)
    /\ s # <<>>
    /\ Len(split(s, ".")) = 4
    /\ \A i \in 1..4 : parse_octet_ok(split(s, ".")[i])

\* _BaseV6._parse_hextet does not raise
parse_hextet_ok(h) ==
    /\ \A i \in 1..Len(h) : h[i] \in HEX_DIGITS
    /\ Len(h) <= 4
    /\ h # <<>>

\* _ip_int_from_string, the hextets: parts_hi of them before the "::" and
\* parts_lo after it
hextets_ok(parts, n, parts_hi, parts_lo) ==
    /\ parts[1] = <<>> => parts_hi = 0
    /\ parts[n] = <<>> => parts_lo = 0
    /\ HEXTET_COUNT - (parts_hi + parts_lo) >= 1
    /\ \A i \in 1..parts_hi : parse_hextet_ok(parts[i])
    /\ \A i \in (n - parts_lo + 1)..n : parse_hextet_ok(parts[i])

\* _ip_int_from_string, the parts with an IPv4 suffix already replaced; skips
\* are the positions of an empty part other than the first and the last
parts_ok(parts, n, skips) ==
    /\ n <= HEXTET_COUNT + 1
    /\ Cardinality(skips) <= 1
    /\ IF skips # {}
       THEN \* skip_index, 0-based, is (CHOOSE i \in skips : TRUE) - 1
            hextets_ok(parts, n,
                       IF parts[1] = <<>> THEN (CHOOSE i \in skips : TRUE) - 2
                       ELSE (CHOOSE i \in skips : TRUE) - 1,
                       IF parts[n] = <<>> THEN n - (CHOOSE i \in skips : TRUE) - 1
                       ELSE n - (CHOOSE i \in skips : TRUE))
       ELSE /\ n = HEXTET_COUNT
            /\ parts[1] # <<>>
            /\ parts[n] # <<>>
            /\ \A i \in 1..n : parse_hextet_ok(parts[i])

\* _ip_int_from_string on ip_str.split(":"); an IPv4 suffix is parsed and
\* replaced by its two hextets
split_ok(parts0, suffix) ==
    /\ Len(parts0) >= 3
    /\ IF contains(suffix, <<".">>)
       THEN /\ is_IPv4Address(suffix)
            /\ parts_ok(SubSeq(parts0, 1, Len(parts0) - 1) \o << <<"0">>, <<"0">> >>,
                        Len(parts0) + 1,
                        {i \in 2..Len(parts0) : parts0[i] = <<>>})
       ELSE parts_ok(parts0, Len(parts0), {i \in 2..(Len(parts0) - 1) : parts0[i] = <<>>})

\* _BaseV6._ip_int_from_string does not raise
ip_int_from_string_ok(ip_str) ==
    /\ ip_str # <<>>
    /\ split_ok(split(ip_str, ":"), split(ip_str, ":")[Len(split(ip_str, ":"))])

\* IPv6Address(s) does not raise
is_IPv6Address(s) ==
    /\ ~ contains(s, <<"/">>)
    /\ contains(s, <<"%">>) =>
          (after_first(s, "%") # <<>> /\ ~ contains(after_first(s, "%"), <<"%">>))
    /\ ip_int_from_string_ok(before_first(s, "%"))

\* re.match(r"\Av[a-fA-F0-9]+\..+\Z", hostname)
is_IPvFuture(hostname) ==
    /\ hostname # <<>> /\ hostname[1] = "v"
    /\ find(hostname, ".", 1) >= 3
    /\ \A i \in 2..(find(hostname, ".", 1) - 1) : hostname[i] \in HEX_DIGITS
    /\ Len(hostname) > find(hostname, ".", 1)

\* _check_bracketed_host does not raise
check_bracketed_host_ok(hostname) ==
    IF hostname # <<>> /\ hostname[1] = "v"
    THEN is_IPvFuture(hostname)
    ELSE \* ip_address tries IPv4Address first, and that result is refused
         /\ ~ is_IPv4Address(hostname)
         /\ is_IPv6Address(hostname)

\* the position of the first "/", "?" or "#" from start on, else past the end
first_delim(u, ends) ==
    IF ends = {} THEN Len(u) + 1 ELSE CHOOSE i \in ends : \A j \in ends : i <= j

\* _splitnetloc(url, 2): the netloc ends at the first of "/", "?", "#"
netloc_of(u) == SubSeq(u, 3, first_delim(u, {i \in 3..Len(u) : u[i] \in {"/", "?", "#"}}) - 1)

after_netloc(u) ==
    SubSeq(u, first_delim(u, {i \in 3..Len(u) : u[i] \in {"/", "?", "#"}}), Len(u))

\* the netloc checks of urlsplit do not raise
netloc_ok(netloc) ==
    /\ ~ (contains(netloc, <<"[">>) /\ ~ contains(netloc, <<"]">>))
    /\ ~ (contains(netloc, <<"]">>) /\ ~ contains(netloc, <<"[">>))
    /\ contains(netloc, <<"[">>) =>
          check_bracketed_host_ok(before_first(after_first(netloc, "["), "]"))

\* _splitparams(url)[0]
cut_params(u, i) == IF i = 0 THEN u ELSE SubSeq(u, 1, i - 1)

splitparams(u) ==
    cut_params(u, IF rfind(u, "/") > 0 THEN find(u, ";", rfind(u, "/")) ELSE find(u, ";", 1))

\* urlparse after urlsplit: the params are cut off the path
path_of(scheme, path) ==
    IF scheme \in uses_params /\ contains(path, <<";">>) THEN splitparams(path) ELSE path

\* urlsplit after the scheme: netloc, fragment, query
split_rest(scheme, u) ==
    IF Len(u) >= 2 /\ u[1] = "/" /\ u[2] = "/"
    THEN IF netloc_ok(netloc_of(u))
         THEN path_of(scheme, before_first(before_first(after_netloc(u), "#"), "?"))
         ELSE ValueError
    ELSE path_of(scheme, before_first(before_first(u, "#"), "?"))

\* urlsplit, the scheme: letters, digits, "+", "-", "." before the first ":",
\* which is at i
split_scheme(u, i) ==
    IF /\ i > 1
       /\ isalpha(u[1])
       /\ \A k \in 1..(i - 1) : u[k] \in scheme_chars
    THEN split_rest(lower(SubSeq(u, 1, i - 1)), SubSeq(u, i + 1, Len(u)))
    ELSE split_rest(<<>>, u)

\* urlparse(url).path, or ValueError when urlsplit raises
urlparse_path(u) == split_scheme(url_lstrip(u), find(url_lstrip(u), ":", 1))

(***************************************************************************)
(* get_file_extension, add_extension                                       *)
(***************************************************************************)

dot_jpg  == <<".","j","p","g">>
dot_jpeg == <<".","j","p","e","g">>
dot_png  == <<".","p","n","g">>
dot_gif  == <<".","g","i","f">>
dot_bmp  == <<".","b","m","p">>
dot_webp == <<".","w","e","b","p">>
dot_svg  == <<".","s","v","g">>
dot_tiff == <<".","t","i","f","f">>

\* the set literal of get_file_extension (and the tuple of add_extension)
image_extensions == {dot_jpg, dot_jpeg, dot_png, dot_gif, dot_bmp, dot_webp, dot_svg}

\* the if/elif chain over the lower-cased content type
content_type_extension(ct) ==
    IF contains(ct, <<"j","p","e","g">>) \/ contains(ct, <<"j","p","g">>) THEN dot_jpg
    ELSE IF contains(ct, <<"p","n","g">>) THEN dot_png
    ELSE IF contains(ct, <<"g","i","f">>) THEN dot_gif
    ELSE IF contains(ct, <<"w","e","b","p">>) THEN dot_webp
    ELSE IF contains(ct, <<"s","v","g">>) THEN dot_svg
    ELSE IF contains(ct, <<"b","m","p">>) THEN dot_bmp
    ELSE dot_jpg

\* get_file_extension once urlparse(url).path is there.  The loop over the set
\* visits the extensions in no fixed order and returns the first that matches;
\* no extension of the set is a suffix of another, so at most one matches and
\* the order does not show.
extension_of(path, content_type) ==
    IF path = ValueError THEN ValueError
    ELSE IF \E ext \in image_extensions : endswith(lower(path), ext)
    THEN CHOOSE ext \in image_extensions : endswith(lower(path), ext)
    ELSE content_type_extension(lower(content_type))

\* the content type consulted before the URL
get_file_extension_content_type_first(u, content_type) ==
    LET known == {<<"j","p","e","g">>, <<"j","p","g">>, <<"p","n","g">>, <<"g","i","f">>,
                  <<"w","e","b","p">>, <<"s","v","g">>, <<"b","m","p">>}
    IN  IF \E k \in known : contains(lower(content_type), k)
        THEN IF urlparse_path(u) = ValueError THEN ValueError
             ELSE content_type_extension(lower(content_type))
        ELSE extension_of(urlparse_path(u), content_type)

\* A ValueError of urlparse leaves the function as it is raised: the result is
\* ValueError.
get_file_extension(u, content_type) == extension_of(urlparse_path(u), content_type)

add_extension(name, extension) ==
    IF ~ \E ext \in image_extensions : endswith(lower(name), ext)
    THEN name \o extension
    ELSE name

(***************************************************************************)
(* Inputs                                                                   *)
(***************************************************************************)

HostPrefix == <<"h","t","t","p",":","/","/","h","/">>

Urls == {
    HostPrefix \o <<"a",".","p","n","g">>,
    HostPrefix \o <<"a",".","P","N","G","?","x","=","1">>,
    HostPrefix \o <<"a">>,
    HostPrefix \o <<"a","?","f","=","b",".","p","n","g">>,
    HostPrefix \o <<"a",".","j","p","e","g">>,
    HostPrefix \o <<"a",".","j","p","g">>,
    HostPrefix \o <<"a",".","s","v","g","#","t">>,
    HostPrefix \o <<"a",".","w","e","b","p",";","p","=","1">>,
    HostPrefix \o <<"a",".","g","i","f">>,
    HostPrefix \o <<"a",".","b","m","p">>,
    HostPrefix \o <<"a",".","t","x","t">>,
    <<" ">> \o HostPrefix \o <<"a",".","g","i","f">>,
    <<" ","h","t","t","p",":","/","/","h",".","p","n","g">>,
    <<"h","t","t","p",":","/","/","[","h","/","a",".","p","n","g">>,
    <<"h","t","t","p",":","/","/","[",":",":","1","]","/","a",".","p","n","g">> }

ct_image == <<"i","m","a","g","e","/">>

ContentTypes == {
    <<>>,
    ct_image \o <<"p","n","g">>,
    <<"I","M","A","G","E","/","P","N","G">>,
    ct_image \o <<"j","p","e","g">>,
    ct_image \o <<"j","p","g">>,
    ct_image \o <<"g","i","f">>,
    ct_image \o <<"w","e","b","p">>,
    ct_image \o <<"s","v","g","+","x","m","l">>,
    ct_image \o <<"b","m","p">>,
    <<"t","e","x","t","/","h","t","m","l">>,
    ct_image \o <<"p","n","g",";"," ","n","a","m","e","=","a",".","j","p","g">> }

(***************************************************************************)
(* Idle values of the parts a specification does not exercise              *)
(***************************************************************************)

ExtIdle ==
    /\ ext_pc = "off" /\ ext_url = <<>> /\ ext_ct = <<>> /\ ext_ret = NoPath

(***************************************************************************)
(* SpecExt: get_file_extension applied to every URL and content type       *)
(***************************************************************************)

ExtInit ==
    /\ ext_pc = "call"
    /\ ext_url \in Urls
    /\ ext_ct \in ContentTypes
    /\ ext_ret = NoPath

GetFileExtension ==
    /\ ext_pc = "call"
    /\ ext_ret' = get_file_extension(ext_url, ext_ct)
    /\ ext_pc' = "returned"
    /\ UNCHANGED <<ext_url, ext_ct>>

(***************************************************************************)
(* The download stage: download_image                                      *)
(***************************************************************************)

DefaultMaxRetries == 3      \* max_retries=3 in the signature of download_image
NoStatus == 0               \* no response was received
StatusOK == 200
StatusNotFound == 404
StatusServerError == 500
StatusForbidden == 403
HttpErrorStatuses == {StatusNotFound, StatusForbidden, StatusServerError}

\* Bodies as iter_content yields them: a sequence of chunks, "" an empty chunk.
Bodies == { <<"A", "", "B">>, <<"C">> }

\* what a file holds after the whole body of a response was written
CompleteContents == { SelectSeq(body, LAMBDA chunk : chunk # "") : body \in Bodies }

\* Content types and references the download stage is run on
FetchContentTypes == {
    ct_image \o <<"p","n","g">>,
    ct_image \o <<"w","e","b","p">> }

name_a    == <<"a">>
name_bPNG == <<"b",".","P","N","G">>
url_plain == HostPrefix \o <<"a">>
url_png   == HostPrefix \o <<"a",".","p","n","g">>
url_open_bracket == <<"h","t","t","p",":","/","/","[","h","/","a",".","p","n","g">>

Refs == { <<name_a, url_plain>>, <<name_a, url_png>>, <<name_bPNG, url_plain>>,
          <<name_a, url_open_bracket>> }

\* Folders the stage may start on: empty, or holding an image stored earlier
InitFolders == { <<>>, [f \in {name_a \o dot_png} |-> <<"P">>] }

\* range(n) of the for loop
py_range_one_more(n) == 0..n

py_range(n) == 0..(n - 1)

\* e.response.status_code == 404
is_not_found_never(status) == FALSE

is_not_found(status) == status = StatusNotFound

\* os.path.exists(file_path), the folder given as its mapping
path_exists_never(fs, p) == FALSE

path_exists(fs, p) == p \in DOMAIN fs

\* full_filename of an attempt that got a response with this content type
with_extension(name, extension) ==
    IF extension = ValueError THEN ValueError ELSE add_extension(name, extension)

full_filename(u, name, content_type) ==
    with_extension(name, get_file_extension(u, content_type))

\* full_filename for the references and content types of the download stage,
\* tabulated once
full_filename_of ==
    [u \in {r[2] : r \in Refs}, name \in {r[1] : r \in Refs}, ct \in FetchContentTypes |->
        full_filename(u, name, ct)]

\* what the loop over iter_content has written after the first k chunks
written(body, k) == SelectSeq(SubSeq(body, 1, k), LAMBDA chunk : chunk # "")

\* open(file_path, "wb") followed by the writes: the file holds exactly content
store(fs, p, content) ==
    [f \in DOMAIN fs \cup {p} |-> IF f = p THEN content ELSE fs[f]]

\* entry of download_image(url, filename, max_retries)
enter_download_image(u, name, mr) ==
    /\ url' = u
    /\ filename' = name
    /\ max_retries' = mr
    /\ attempt' = 0
    /\ file_path' = NoPath
    /\ ret' = None
    /\ pc' = "attempt"
    /\ files0' = files
    /\ last_outcome' = <<None, NoStatus>>
    /\ requests_made' = 0
    /\ opened' = <<>>
    /\ seen' = {}
    /\ fetched' = Append(fetched, <<name, u>>)

\* one more iteration of the for loop is due
InLoop == pc = "attempt" /\ attempt \in py_range(max_retries)

\* the except clause was left without return: next iteration
next_attempt(outcome) ==
    /\ attempt' = attempt + 1
    /\ requests_made' = requests_made + 1
    /\ last_outcome' = outcome
    /\ seen' = seen \cup {outcome}
    /\ pc' = "attempt"
    /\ ret' = None
    /\ UNCHANGED <<url, filename, max_retries, files0, fetched, results,
                   image_list, idx, success_count, batch_ret>>

\* a return statement inside the loop
return_from_attempt(outcome, value) ==
    /\ attempt' = attempt
    /\ requests_made' = requests_made + 1
    /\ last_outcome' = outcome
    /\ seen' = seen \cup {outcome}
    /\ pc' = "returned"
    /\ ret' = value
    /\ results' = Append(results, value)
    /\ UNCHANGED <<url, filename, max_retries, files0, fetched,
                   image_list, idx, success_count, batch_ret>>

\* requests.get raises Timeout
AttemptTimeout ==
    /\ InLoop
    /\ next_attempt(<<"timeout", NoStatus>>)
    /\ UNCHANGED <<files, file_path, opened, partial>>

\* raise_for_status raises HTTPError
AttemptHTTPError ==
    /\ InLoop
    /\ \E status \in HttpErrorStatuses :
          IF is_not_found(status)
          THEN return_from_attempt(<<"http_error", status>>, False)
          ELSE next_attempt(<<"http_error", status>>)
    /\ UNCHANGED <<files, file_path, opened, partial>>

\* requests.get raises another RequestException (connection refused, DNS, ...)
AttemptNetworkError ==
    /\ InLoop
    /\ next_attempt(<<"network", NoStatus>>)
    /\ UNCHANGED <<files, file_path, opened, partial>>

\* requests.get raises something that is no RequestException and no IOError
AttemptUnexpected ==
    /\ InLoop
    /\ next_attempt(<<"unexpected", NoStatus>>)
    /\ UNCHANGED <<files, file_path, opened, partial>>

\* 2xx response, get_file_extension raises ValueError: except Exception, next
\* iteration
AttemptExtensionError ==
    /\ InLoop
    /\ \E ct \in FetchContentTypes : full_filename_of[url, filename, ct] = ValueError
    /\ next_attempt(<<"extension_error", StatusOK>>)
    /\ UNCHANGED <<files, file_path, opened, partial>>

\* 2xx response, and the computed path exists
AttemptExists ==
    /\ InLoop
    /\ \E ct \in FetchContentTypes :
          LET p == full_filename_of[url, filename, ct]
          IN  /\ p # ValueError
              /\ path_exists(files, p)
              /\ file_path' = p
    /\ return_from_attempt(<<"exists", StatusOK>>, True)
    /\ UNCHANGED <<files, opened, partial>>

\* 2xx response, the path is free, open() raises IOError
AttemptOpenError ==
    /\ InLoop
    /\ \E ct \in FetchContentTypes :
          LET p == full_filename_of[url, filename, ct]
          IN  /\ p # ValueError
              /\ ~ path_exists(files, p)
              /\ file_path' = p
    /\ return_from_attempt(<<"open_error", StatusOK>>, False)
    /\ UNCHANGED <<files, opened, partial>>

\* 2xx response, the path is free, the whole body is written
AttemptDownload ==
    /\ InLoop
    /\ \E ct \in FetchContentTypes, body \in Bodies :
          LET p == full_filename_of[url, filename, ct]
          IN  /\ p # ValueError
              /\ ~ path_exists(files, p)
              /\ file_path' = p
              /\ files' = store(files, p, written(body, Len(body)))
              /\ opened' = Append(opened, p)
    /\ return_from_attempt(<<"downloaded", StatusOK>>, True)
    /\ UNCHANGED partial

\* 2xx response, the path is free, iter_content raises a RequestException
\* after k chunks: the file stays as written so far, next iteration
AttemptStreamError ==
    /\ InLoop
    /\ \E ct \in FetchContentTypes, body \in Bodies :
       \E k \in 0..(Len(body) - 1) :
          LET p == full_filename_of[url, filename, ct]
          IN  /\ p # ValueError
              /\ ~ path_exists(files, p)
              /\ file_path' = p
              /\ files' = store(files, p, written(body, k))
              /\ opened' = Append(opened, p)
              /\ partial' = partial \cup {p}
    /\ next_attempt(<<"stream_error", StatusOK>>)

\* 2xx response, the path is free, file.write raises IOError after k chunks
AttemptWriteError ==
    /\ InLoop
    /\ \E ct \in FetchContentTypes, body \in Bodies :
       \E k \in 0..(Len(body) - 1) :
          LET p == full_filename_of[url, filename, ct]
          IN  /\ p # ValueError
              /\ ~ path_exists(files, p)
              /\ file_path' = p
              /\ files' = store(files, p, written(body, k))
              /\ opened' = Append(opened, p)
              /\ partial' = partial \cup {p}
    /\ return_from_attempt(<<"write_error", StatusOK>>, False)

\* the loop is over: the final return False
Exhausted ==
    /\ pc = "attempt"
    /\ attempt \notin py_range(max_retries)
    /\ pc' = "returned"
    /\ ret' = False
    /\ results' = Append(results, False)
    /\ UNCHANGED <<files, image_list, idx, success_count, batch_ret, url, filename,
                   max_retries, attempt, file_path>>
    /\ UNCHANGED <<files0, last_outcome, requests_made, opened, seen, partial,
                   fetched>>

(***************************************************************************)
(* The download stage: download_all_images                                 *)
(***************************************************************************)

\* if download_image(src, name): success_count += 1
tally_every_item(count, r) == count + 1

tally(count, r) == IF r = True THEN count + 1 ELSE count

\* if not image_list: return 0, 0
DownloadAllImagesEmpty ==
    /\ pc = "idle"
    /\ image_list = <<>>
    /\ batch_ret' = <<0, 0>>
    /\ pc' = "done"
    /\ UNCHANGED <<files, image_list, idx, success_count, url, filename,
                   max_retries, attempt, file_path, ret>>
    /\ UNCHANGED histVars

\* the first iteration of the loop over image_list
DownloadAllImagesStart ==
    /\ pc = "idle"
    /\ image_list # <<>>
    /\ success_count' = 0
    /\ idx' = 1
    /\ enter_download_image(image_list[1][2], image_list[1][1], DefaultMaxRetries)
    /\ UNCHANGED <<files, image_list, batch_ret, partial, results>>

\* download_image returned to the loop: tally, then the next item
DownloadAllImagesNext ==
    /\ pc = "returned"
    /\ idx < Len(image_list)
    /\ success_count' = tally(success_count, ret)
    /\ idx' = idx + 1
    /\ enter_download_image(image_list[idx + 1][2], image_list[idx + 1][1],
                            DefaultMaxRetries)
    /\ UNCHANGED <<files, image_list, batch_ret, partial, results>>

\* download_image returned for the last item: return success_count, total_count
DownloadAllImagesReturn ==
    /\ pc = "returned"
    /\ idx = Len(image_list)
    /\ success_count' = tally(success_count, ret)
    /\ batch_ret' = <<success_count', Len(image_list)>>
    /\ pc' = "done"
    /\ UNCHANGED <<files, image_list, idx, url, filename, max_retries, attempt,
                   file_path, ret>>
    /\ UNCHANGED histVars

(***************************************************************************)
(* Idle values of the parts a specification does not exercise              *)
(***************************************************************************)

FetchIdle ==
    /\ files = <<>> /\ pc = "off" /\ image_list = <<>> /\ idx = 0
    /\ success_count = 0 /\ batch_ret = NotReturned
    /\ url = <<>> /\ filename = <<>> /\ max_retries = 0 /\ attempt = 0
    /\ file_path = NoPath /\ ret = None
    /\ files0 = <<>> /\ last_outcome = <<None, NoStatus>> /\ requests_made = 0
    /\ opened = <<>> /\ seen = {} /\ partial = {} /\ fetched = <<>>
    /\ results = <<>>

ScanIdle ==
    /\ scan_pc = "off" /\ listing = <<>> /\ scan_i = 0 /\ all_results = <<>>
    /\ scan_log = <<>>

ReportIdle ==
    /\ folder_exists = TRUE /\ report = NoReport /\ report_runs = 0 /\ last_run = NoRun
    /\ report_pc = "off" /\ report_images = <<>> /\ report_i = 0
    /\ dl_file = NoPath /\ dl_rest = <<>>

(***************************************************************************)
(* Spec: download_all_images on a list of references                       *)
(***************************************************************************)

MaxList == 2

FetchStart ==
    /\ files \in InitFolders
    /\ pc = "idle"
    /\ idx = 0 /\ success_count = 0 /\ batch_ret = NotReturned
    /\ url = <<>> /\ filename = <<>> /\ max_retries = 0 /\ attempt = 0
    /\ file_path = NoPath /\ ret = None
    /\ files0 = files /\ last_outcome = <<None, NoStatus>> /\ requests_made = 0
    /\ opened = <<>> /\ seen = {} /\ partial = {} /\ fetched = <<>>
    /\ results = <<>>

Init ==
    /\ FetchStart
    /\ image_list \in SeqsUpTo(Refs, MaxList)
    /\ ExtIdle /\ ScanIdle /\ ReportIdle

Next ==
    \/ (DownloadAllImagesEmpty /\ UNCHANGED <<extVars, scanVars, reportVars>>)
    \/ (DownloadAllImagesStart /\ UNCHANGED <<extVars, scanVars, reportVars>>)
    \/ (DownloadAllImagesNext /\ UNCHANGED <<extVars, scanVars, reportVars>>)
    \/ (DownloadAllImagesReturn /\ UNCHANGED <<extVars, scanVars, reportVars>>)
    \/ (AttemptTimeout /\ UNCHANGED <<extVars, scanVars, reportVars>>)
    \/ (AttemptHTTPError /\ UNCHANGED <<extVars, scanVars, reportVars>>)
    \/ (AttemptNetworkError /\ UNCHANGED <<extVars, scanVars, reportVars>>)
    \/ (AttemptUnexpected /\ UNCHANGED <<extVars, scanVars, reportVars>>)
    \/ (AttemptExtensionError /\ UNCHANGED <<extVars, scanVars, reportVars>>)
    \/ (AttemptExists /\ UNCHANGED <<extVars, scanVars, reportVars>>)
    \/ (AttemptOpenError /\ UNCHANGED <<extVars, scanVars, reportVars>>)
    \/ (AttemptDownload /\ UNCHANGED <<extVars, scanVars, reportVars>>)
    \/ (AttemptStreamError /\ UNCHANGED <<extVars, scanVars, reportVars>>)
    \/ (AttemptWriteError /\ UNCHANGED <<extVars, scanVars, reportVars>>)
    \/ (Exhausted /\ UNCHANGED <<extVars, scanVars, reportVars>>)

Spec == Init /\ [][Next]_vars

(***************************************************************************)
(* SpecFetch: one call of download_image with any max_retries              *)
(***************************************************************************)

MaxRetries == 3

DirectCall ==
    /\ pc = "idle"
    /\ \E ref \in Refs, mr \in 0..MaxRetries :
          enter_download_image(ref[2], ref[1], mr)
    /\ UNCHANGED <<files, image_list, idx, success_count, batch_ret, partial,
                   results>>

InitFetch ==
    /\ FetchStart
    /\ image_list = <<>>
    /\ ExtIdle /\ ScanIdle /\ ReportIdle

NextFetch ==
    \/ (DirectCall /\ UNCHANGED <<extVars, scanVars, reportVars>>)
    \/ (AttemptTimeout /\ UNCHANGED <<extVars, scanVars, reportVars>>)
    \/ (AttemptHTTPError /\ UNCHANGED <<extVars, scanVars, reportVars>>)
    \/ (AttemptNetworkError /\ UNCHANGED <<extVars, scanVars, reportVars>>)
    \/ (AttemptUnexpected /\ UNCHANGED <<extVars, scanVars, reportVars>>)
    \/ (AttemptExtensionError /\ UNCHANGED <<extVars, scanVars, reportVars>>)
    \/ (AttemptExists /\ UNCHANGED <<extVars, scanVars, reportVars>>)
    \/ (AttemptOpenError /\ UNCHANGED <<extVars, scanVars, reportVars>>)
    \/ (AttemptDownload /\ UNCHANGED <<extVars, scanVars, reportVars>>)
    \/ (AttemptStreamError /\ UNCHANGED <<extVars, scanVars, reportVars>>)
    \/ (AttemptWriteError /\ UNCHANGED <<extVars, scanVars, reportVars>>)
    \/ (Exhausted /\ UNCHANGED <<extVars, scanVars, reportVars>>)

SpecFetch == InitFetch /\ [][NextFetch]_vars

(***************************************************************************)
(* SpecExt                                                                 *)
(***************************************************************************)

InitExt == ExtInit /\ FetchIdle /\ ScanIdle /\ ReportIdle

NextExt == GetFileExtension /\ UNCHANGED <<fetchVars, histVars, scanVars, reportVars>>

SpecExt == InitExt /\ [][NextExt]_vars

(***************************************************************************)
(* Claims on the download stage                                            *)
(***************************************************************************)

Timeout == <<"timeout", NoStatus>>
NotFound == <<"http_error", StatusNotFound>>
ResponseKinds == {"exists", "open_error", "downloaded", "stream_error", "write_error"}
GotResponse == \E o \in seen : o[1] \in ResponseKinds
Running == pc \in {"attempt", "returned"}

\* C1 -- Retry exhaustion: a call of download_image with max_retries >= 1 whose
\* every request times out makes exactly max_retries requests (never more
\* while it runs, exactly that many when it returns), returns False and
\* creates no file.
C1_RetryExhaustion ==
    (Running /\ max_retries >= 1 /\ seen \subseteq {Timeout}) =>
        /\ requests_made <= max_retries
        /\ opened = <<>>
        /\ files = files0
        /\ pc = "attempt" => ret = None
        /\ pc = "returned" => (ret = False /\ requests_made = max_retries)

C1_Witness ==
    /\ pc = "returned"
    /\ seen = {Timeout}
    /\ max_retries = DefaultMaxRetries
    /\ requests_made = DefaultMaxRetries
    /\ ret = False

\* C2 -- 404 short-circuit: the attempt that receives status 404 ends the call
\* with False, whatever came before it, and no attempt follows it; a call
\* that met nothing but 404 made one request; any other HTTP error status
\* leaves the call in its loop, with the next attempt due, while attempts remain.
C2_NotFoundShortCircuit ==
    Running =>
        /\ NotFound \in seen => last_outcome = NotFound
        /\ last_outcome = NotFound => (pc = "returned" /\ ret = False)
        /\ seen = {NotFound} => requests_made = 1
        /\ ( /\ last_outcome[1] = "http_error"
             /\ last_outcome # NotFound
             /\ requests_made < max_retries )
           => (pc = "attempt" /\ ret = None /\ InLoop)

C2_Witness ==
    /\ pc = "returned"
    /\ seen = {<<"http_error", StatusServerError>>, NotFound}
    /\ last_outcome = NotFound
    /\ requests_made = 2
    /\ max_retries = DefaultMaxRetries
    /\ ret = False

\* The target file of the running call exists already, whatever content type
\* the response declares.
TargetPreexists ==
    /\ Running
    /\ \A ct \in FetchContentTypes : full_filename_of[url, filename, ct] \in DOMAIN files0

\* C3 (as stated) -- Idempotence: a call of download_image with a reference
\* whose target file already exists performs no write and reports success.
C3_AsStated ==
    (TargetPreexists /\ pc = "returned") => (ret = True /\ opened = <<>>)

\* C3 (amended) -- a call of download_image with a reference whose target file
\* already exists performs no write; it reports success at the first attempt
\* that receives a 2xx response, and only then: when every attempt fails
\* before a response (timeout, HTTP error, network error) it reports failure.
C3_Idempotence ==
    TargetPreexists =>
        /\ opened = <<>>
        /\ files = files0
        /\ GotResponse => (pc = "returned" /\ ret = True /\ last_outcome[1] = "exists")
        /\ (pc = "returned" /\ ~ GotResponse) => ret = False

\* two calls with the same reference, the file there before the first: both
\* report success and the folder is as it was
C3_Witness ==
    /\ pc = "returned"
    /\ TargetPreexists
    /\ Len(fetched) = 2
    /\ fetched[1] = fetched[2]
    /\ results = <<True, True>>
    /\ files \in InitFolders
    /\ opened = <<>>

\* C4 -- frame of download_image: a call creates at most one file, and every
\* file that was in the folder before the call is still there with the same
\* content.
C4_Frame ==
    Running =>
        /\ Cardinality(DOMAIN files \ DOMAIN files0) <= 1
        /\ \A f \in DOMAIN files0 : f \in DOMAIN files /\ files[f] = files0[f]

\* C9 -- download_all_images invokes download_image once per reference, in
\* list order, whatever the earlier items returned, and returns
\* (number of True results, length of the list); the empty list returns
\* (0, 0) without any fetch.
CountTrue(rs) == Cardinality({i \in 1..Len(rs) : rs[i] = True})

C9_Batch ==
    /\ Len(fetched) <= Len(image_list)
    /\ \A i \in 1..Len(fetched) : fetched[i] = image_list[i]
    /\ Len(results) <= Len(fetched)
    /\ Len(fetched) <= Len(results) + 1
    /\ pc = "attempt" => Len(fetched) = Len(results) + 1
    /\ pc = "done" =>
          /\ fetched = image_list
          /\ Len(results) = Len(image_list)
          /\ batch_ret = <<CountTrue(results), Len(image_list)>>
    /\ (pc = "done" /\ image_list = <<>>) => (batch_ret = <<0, 0>> /\ fetched = <<>>)

C9_Witness ==
    /\ pc = "done"
    /\ Len(image_list) = 2
    /\ results = <<False, True>>
    /\ batch_ret = <<1, 2>>

\* C10 -- whenever download_image reports success for a target that was not
\* there before the call, the file holds the complete body of one response;
\* and a file left partially written by a failed attempt is never the file a
\* later attempt or a later call reports as downloaded.
C10_CompleteOnSuccess ==
    (pc = "returned" /\ ret = True) =>
        /\ file_path \notin DOMAIN files0 => files[file_path] \in CompleteContents
        /\ file_path \notin partial

(***************************************************************************)
(* The report stage: text_recognition.py                                   *)
(***************************************************************************)

\* image_extensions of process_all_images_to_md
report_image_extensions == {dot_jpg, dot_jpeg, dot_png, dot_bmp, dot_tiff, dot_gif}

\* os.path.splitext(p)[1]: from the last dot on, unless that dot is before the
\* last "/" or has nothing but dots between the last "/" and itself
splitext_ext(p) ==
    LET sep == rfind(p, "/")
        dot == rfind(p, ".")
    IN  IF dot > sep /\ (\E k \in (sep + 1)..(dot - 1) : p[k] # ".")
        THEN SubSeq(p, dot, Len(p))
        ELSE <<>>

\* the list comprehension over os.listdir, sorted
images_of(fs) ==
    sorted({f \in DOMAIN fs : lower(splitext_ext(f)) \in report_image_extensions})

Whitespace == {" "}

\* str.strip()
RECURSIVE lstrip(_)
lstrip(t) == IF t # <<>> /\ t[1] \in Whitespace THEN lstrip(Tail(t)) ELSE t

RECURSIVE rstrip(_)
rstrip(t) ==
    IF t # <<>> /\ t[Len(t)] \in Whitespace THEN rstrip(SubSeq(t, 1, Len(t) - 1)) ELSE t

strip(t) == rstrip(lstrip(t))

\* What pytesseract.image_to_string does on an image: text, blank text, or an
\* exception (<<"raise">>).
OcrRaises == <<"raise">>
OcrOutputs == { <<"H","i"," ">>, <<" "," ">>, OcrRaises }

\* The sentinel strings of extract_text_from_image, each written as one token.
TextNotFound == <<"[file not found]">>
TextNotRecognized == <<"[no text recognized]">>
TextError == <<"[error while processing the image]">>

\* extract_text_from_image from image_to_string on: what it returns for what
\* the OCR engine gave
recognised(ocr) ==
    IF ocr = OcrRaises THEN TextError
    ELSE IF strip(ocr) # <<>> THEN strip(ocr)
    ELSE TextNotRecognized

\* the three writes of the loop body, and the loop going on: the next image,
\* or after the last one the with block closes the file
write_section(image_name, text) ==
    /\ report' = [report EXCEPT !.sections =
                     Append(@, [header |-> image_name, text |-> text])]
    /\ IF report_i < Len(report_images)
       THEN report_pc' = "image" /\ report_i' = report_i + 1 /\ UNCHANGED report_images
       ELSE report_pc' = "idle" /\ report_i' = 0 /\ report_images' = <<>>

MaxRuns == 2
MaxFolder == 2

\* main of text_recognition.py up to the folder check of
\* process_all_images_to_md: the OCR engine is looked for, then the folder
ReportMain ==
    /\ report_pc = "idle"
    /\ report_runs < MaxRuns
    /\ report_runs' = report_runs + 1
    /\ \E tesseract_ok \in BOOLEAN :
          /\ last_run' = [tesseract |-> tesseract_ok, folder |-> folder_exists,
                          names |-> {}]
          /\ report_pc' = IF tesseract_ok /\ folder_exists THEN "list" ELSE "idle"
    /\ UNCHANGED <<folder_exists, files, report, report_images, report_i, dl_file,
                   dl_rest>>

\* os.listdir raises FileNotFoundError, which nothing catches: the run ends
ReportListFails ==
    /\ report_pc = "list"
    /\ ~ folder_exists
    /\ last_run' = [last_run EXCEPT !.folder = FALSE]
    /\ report_pc' = "idle"
    /\ UNCHANGED <<folder_exists, files, report, report_runs, report_images, report_i,
                   dl_file, dl_rest>>

\* the sorted listing; without an image the run returns, else open(output_file, "w")
ReportList ==
    /\ report_pc = "list"
    /\ folder_exists
    /\ last_run' = [last_run EXCEPT !.names = DOMAIN files]
    /\ LET images == images_of(files)
       IN  IF images = <<>>
           THEN /\ report_pc' = "idle"
                /\ UNCHANGED <<report, report_images, report_i>>
           ELSE /\ report_pc' = "image"
                /\ report' = [exists |-> TRUE, sections |-> <<>>]
                /\ report_images' = images
                /\ report_i' = 1
    /\ UNCHANGED <<folder_exists, files, report_runs, dl_file, dl_rest>>

\* One iteration of the loop over images, up to the call of the OCR engine:
\* extract_text_from_image looks for the file in the folder as it is now.  A
\* missing file gives the not-found text and the section is written at once.
\* Image.open raises on a file that is no image, which a file still empty or
\* partly written may be: the error text is written at once.  Otherwise
\* image_to_string is called and the stage waits for the engine.
ReportImageOpen ==
    /\ report_pc = "image"
    /\ IF report_images[report_i] \notin DOMAIN files
       THEN write_section(report_images[report_i], TextNotFound)
       ELSE \/ write_section(report_images[report_i], TextError)
            \/ /\ report_pc' = "ocr"
               /\ UNCHANGED <<report, report_images, report_i>>
    /\ UNCHANGED <<folder_exists, files, report_runs, last_run, dl_file, dl_rest>>

\* The OCR engine answers (or image_to_string raises): the text is returned
\* and the section is written, whatever became of the file meanwhile.
ReportImageOcr ==
    /\ report_pc = "ocr"
    /\ \E ocr \in OcrOutputs : write_section(report_images[report_i], recognised(ocr))
    /\ UNCHANGED <<folder_exists, files, report_runs, last_run, dl_file, dl_rest>>

\* Every filename download_image can give a file: a name with the extension
\* inferred from a URL and a content type.
StoredNames ==
    { full_filename(u, name, ct) :
        name \in {name_a, name_bPNG}, u \in Urls, ct \in ContentTypes } \ {ValueError}

\* the body of the response a download_image call stores, as iter_content
\* yields it
StoredBodies == { <<"A", "B">> }

\* create_download_folder: the folder is made when it is not there
CreateDownloadFolder ==
    /\ ~ folder_exists
    /\ folder_exists' = TRUE
    /\ UNCHANGED <<files, report, report_runs, last_run, report_pc, report_images,
                   report_i, dl_file, dl_rest>>

\* While the report stage runs or between two runs, a download_image call of
\* the download stage got a response for a name the folder does not hold:
\* open(file_path, "wb") makes the file, empty; the chunks are yet to come
DownloadStageOpens ==
    /\ dl_file = NoPath
    /\ folder_exists
    /\ Cardinality(DOMAIN files) < MaxFolder
    /\ \E f \in StoredNames \ DOMAIN files, body \in StoredBodies :
          /\ files' = store(files, f, <<>>)
          /\ dl_file' = f
          /\ dl_rest' = body
    /\ UNCHANGED <<folder_exists, report, report_runs, last_run, report_pc,
                   report_images, report_i>>

\* iter_content yields the next chunk and file.write appends it unless it is
\* empty; after the last chunk the with block closes the file.  A file removed
\* meanwhile does not come back by the write.
DownloadStageWrites ==
    /\ dl_file # NoPath
    /\ files' = IF dl_file \in DOMAIN files /\ Head(dl_rest) # ""
                THEN [files EXCEPT ![dl_file] = Append(@, Head(dl_rest))]
                ELSE files
    /\ dl_rest' = Tail(dl_rest)
    /\ dl_file' = IF Tail(dl_rest) = <<>> THEN NoPath ELSE dl_file
    /\ UNCHANGED <<folder_exists, report, report_runs, last_run, report_pc,
                   report_images, report_i>>

\* iter_content raises a RequestException, or file.write an IOError: the with
\* block closes the file on what was written so far, and it stays
DownloadStageBreaks ==
    /\ dl_file # NoPath
    /\ dl_file' = NoPath
    /\ dl_rest' = <<>>
    /\ UNCHANGED <<folder_exists, files, report, report_runs, last_run, report_pc,
                   report_images, report_i>>

\* ... or the user clears images away, or the whole folder.
UserRemovesImage ==
    /\ \E f \in DOMAIN files : files' = [g \in DOMAIN files \ {f} |-> files[g]]
    /\ UNCHANGED <<folder_exists, report, report_runs, last_run, report_pc,
                   report_images, report_i, dl_file, dl_rest>>

UserRemovesFolder ==
    /\ folder_exists
    /\ folder_exists' = FALSE
    /\ files' = <<>>
    /\ UNCHANGED <<report, report_runs, last_run, report_pc, report_images, report_i,
                   dl_file, dl_rest>>

ReportFrame ==
    UNCHANGED <<extVars, scanVars, histVars, pc, image_list, idx, success_count,
                batch_ret, url, filename, max_retries, attempt, file_path, ret>>

InitReport ==
    /\ ExtIdle /\ ScanIdle
    /\ pc = "off" /\ image_list = <<>> /\ idx = 0
    /\ success_count = 0 /\ batch_ret = NotReturned
    /\ url = <<>> /\ filename = <<>> /\ max_retries = 0 /\ attempt = 0
    /\ file_path = NoPath /\ ret = None
    /\ files0 = <<>> /\ last_outcome = <<None, NoStatus>> /\ requests_made = 0
    /\ opened = <<>> /\ seen = {} /\ partial = {} /\ fetched = <<>>
    /\ results = <<>>
    /\ folder_exists \in BOOLEAN
    /\ files = <<>>
    /\ report = NoReport
    /\ report_runs = 0
    /\ last_run = NoRun
    /\ report_pc = "idle" /\ report_images = <<>> /\ report_i = 0
    /\ dl_file = NoPath /\ dl_rest = <<>>

NextReport ==
    \/ (ReportMain /\ ReportFrame)
    \/ (ReportListFails /\ ReportFrame)
    \/ (ReportList /\ ReportFrame)
    \/ (ReportImageOpen /\ ReportFrame)
    \/ (ReportImageOcr /\ ReportFrame)
    \/ (CreateDownloadFolder /\ ReportFrame)
    \/ (DownloadStageOpens /\ ReportFrame)
    \/ (DownloadStageWrites /\ ReportFrame)
    \/ (DownloadStageBreaks /\ ReportFrame)
    \/ (UserRemovesImage /\ ReportFrame)
    \/ (UserRemovesFolder /\ ReportFrame)

SpecReport == InitReport /\ [][NextReport]_vars

(***************************************************************************)
(* Claims on the report stage                                              *)
(***************************************************************************)

Headers == [i \in 1..Len(report.sections) |-> report.sections[i].header]

\* a run of the report stage has ended, and it had found the OCR engine
RunEnded == report_pc = "idle" /\ report_runs >= 1 /\ last_run.tesseract

\* C7 -- one section per stored image: when a run of the report stage with
\* the OCR engine reachable has ended, every file download_image had stored
\* in the folder the run listed heads exactly one section of the report, and
\* the sections are in lexicographic filename order.
C7_OneSectionPerStoredImage ==
    (RunEnded /\ last_run.folder) =>
        /\ \A f \in last_run.names :
              Cardinality({i \in 1..Len(Headers) : Headers[i] = f}) = 1
        /\ \A i \in 1..(Len(Headers) - 1) : str_lt(Headers[i], Headers[i + 1])

\* C8 -- the report is rewritten on every run with the OCR engine reachable:
\* when the run has ended the report holds the sections of the image files
\* the folder held when the run listed it and nothing else, also when that
\* is no image at all or the folder was missing.
C8_RewrittenOnEveryRun ==
    RunEnded =>
        Headers = sorted({f \in last_run.names :
                            lower(splitext_ext(f)) \in report_image_extensions})

(***************************************************************************)
(* The file scanner: parse_img_tag, read_and_parse_file, the loop of main  *)
(***************************************************************************)

\* Python None where a str is expected: one token that is no character
PyNone == <<"None">>

\* s[i:] with the leading whitespace skipped: the position \s* stops at
RECURSIVE skip_ws(_, _)
skip_ws(s, i) == IF i <= Len(s) /\ s[i] \in Whitespace THEN skip_ws(s, i + 1) ELSE i

\* attr\s*=\s*"([^"]*)" matched at position i of s, case-insensitively:
\* 0 when it does not match there, else the position of the opening quote
quote_of_match_at(s, attr, i) ==
    IF i + Len(attr) - 1 <= Len(s) /\ lower(SubSeq(s, i, i + Len(attr) - 1)) = attr
    THEN LET eq == skip_ws(s, i + Len(attr))
         IN  IF eq <= Len(s) /\ s[eq] = "="
             THEN LET q == skip_ws(s, eq + 1)
                  IN  IF q <= Len(s) /\ s[q] = "\"" /\ find(s, "\"", q + 1) # 0
                      THEN q ELSE 0
             ELSE 0
    ELSE 0

\* re.search(pattern, s, re.IGNORECASE): group(1) of the leftmost match, or None
search_attr(s, attr) ==
    LET starts == {i \in 1..Len(s) : quote_of_match_at(s, attr, i) # 0}
    IN  IF starts = {} THEN PyNone
        ELSE LET i == CHOOSE k \in starts : \A j \in starts : k <= j
                 q == quote_of_match_at(s, attr, i)
             IN  SubSeq(s, q + 1, find(s, "\"", q + 1) - 1)

parse_img_tag(html_line) ==
    LET cleaned_line == strip(html_line)
    IN  IF cleaned_line = <<>> \/ ~ contains(lower(cleaned_line), <<"<","i","m","g">>)
        THEN <<PyNone, PyNone>>
        ELSE LET name == search_attr(cleaned_line, <<"n","a","m","e">>)
                 src  == search_attr(cleaned_line, <<"s","r","c">>)
             IN  IF name # PyNone /\ src # PyNone THEN <<name, src>>
                 ELSE <<PyNone, PyNone>>

\* truth value of a str or None
truthy(v) == v # PyNone /\ v # <<>>

line_img == <<"<","i","m","g"," ","n","a","m","e","=","\"","f","1","\""," ","s","r","c","=","\"","u","1","\"",">">>
line_IMG == <<" ","<","I","M","G"," ","S","R","C","=","\"","u","2","\""," ","N","A","M","E"," ","="," ","\"","f","2","\"",">">>
line_no_src == <<"<","i","m","g"," ","n","a","m","e","=","\"","f","3","\"",">">>
line_text == <<"<","p",">","s","r","c","<","/","p",">">>
line_empty_name == <<"<","i","m","g"," ","n","a","m","e","=","\"","\""," ","s","r","c","=","\"","u","5","\"",">">>
line_blank == <<" "," ">>

Lines == {line_img, line_IMG, line_no_src, line_text, line_empty_name, line_blank}

\* parse_img_tag on the lines above, tabulated once
parsed == [l \in Lines |-> parse_img_tag(l)]

\* the loop body of read_and_parse_file over some lines: the pairs appended
RECURSIVE matches_of(_)
matches_of(ls) ==
    IF ls = <<>> THEN <<>>
    ELSE LET r == parsed[ls[1]]
         IN  (IF truthy(r[1]) /\ truthy(r[2]) THEN <<r>> ELSE <<>>) \o matches_of(Tail(ls))

\* A file is read in blocks (the text layer decodes one block of bytes at a
\* time); a block is the lines it holds and what its bytes are:
\*   "ascii"   decodes as utf-8 and as cp1251
\*   "cp1251"  holds a byte sequence that is no utf-8 but decodes as cp1251
\*   "invalid" holds byte 0x98 alone: no utf-8, and undefined in cp1251
BlockBytes == {"ascii", "cp1251", "invalid"}
BlockLines == { <<line_img, line_text>>, <<line_IMG, line_no_src>>,
                <<line_empty_name, line_blank>> }
Blocks == [lines : BlockLines, bytes : BlockBytes]

MaxBlocks == 2
MaxEntries == 2

\* Directory entries: regular files, readable or not, and sub-directories
Entries ==
    [kind : {"file"}, blocks : SeqsUpTo(Blocks, MaxBlocks)]
    \cup {[kind |-> "unreadable", blocks |-> <<>>], [kind |-> "dir", blocks |-> <<>>]}

\* lines of the first n blocks, in order
RECURSIVE lines_of(_, _)
lines_of(blocks, n) ==
    IF n = 0 THEN <<>> ELSE lines_of(blocks, n - 1) \o blocks[n].lines

\* index of the first block a decoder rejects, 0 when it accepts them all
first_rejected(blocks, accepted) ==
    LET bad == {i \in 1..Len(blocks) : blocks[i].bytes \notin accepted}
    IN  IF bad = {} THEN 0 ELSE CHOOSE i \in bad : \A j \in bad : i <= j

\* read_and_parse_file: the utf-8 pass appends to results until the decoder
\* raises; the cp1251 pass then reads the file from its start and appends to
\* the same list.
read_and_parse_file(f) ==
    IF f.kind = "unreadable" THEN <<>>
    ELSE LET bad8 == first_rejected(f.blocks, {"ascii"})
         IN  IF bad8 = 0 THEN matches_of(lines_of(f.blocks, Len(f.blocks)))
             ELSE LET appended == matches_of(lines_of(f.blocks, bad8 - 1))
                      bad1251 == first_rejected(f.blocks, {"ascii", "cp1251"})
                  IN  IF bad1251 = 0
                      THEN appended \o matches_of(lines_of(f.blocks, Len(f.blocks)))
                      ELSE <<>>

\* one iteration of the loop of main over os.listdir(folder_path)
ScanEntry ==
    /\ scan_pc = "scan"
    /\ scan_i < Len(listing)
    /\ LET f == listing[scan_i + 1]
       IN  /\ f.kind # "dir"
           /\ all_results' = all_results \o read_and_parse_file(f)
           /\ scan_log' = Append(scan_log, read_and_parse_file(f))
    /\ scan_i' = scan_i + 1
    /\ UNCHANGED <<scan_pc, listing>>

\* os.path.isfile is false: the entry is passed over
ScanSkip ==
    /\ scan_pc = "scan"
    /\ scan_i < Len(listing)
    /\ listing[scan_i + 1].kind = "dir"
    /\ scan_log' = Append(scan_log, <<>>)
    /\ scan_i' = scan_i + 1
    /\ UNCHANGED <<scan_pc, listing, all_results>>

\* the loop is over: all_results goes to download_all_images, or nothing was found
ScanEnd ==
    /\ scan_pc = "scan"
    /\ scan_i = Len(listing)
    /\ scan_pc' = IF all_results # <<>> THEN "download" ELSE "nothing found"
    /\ UNCHANGED <<listing, scan_i, all_results, scan_log>>

InitScan ==
    /\ ExtIdle /\ FetchIdle /\ ReportIdle
    /\ scan_pc = "scan"
    /\ listing \in SeqsUpTo(Entries, MaxEntries)
    /\ scan_i = 0
    /\ all_results = <<>>
    /\ scan_log = <<>>

ScanFrame == UNCHANGED <<extVars, fetchVars, histVars, reportVars>>

NextScan ==
    \/ (ScanEntry /\ ScanFrame)
    \/ (ScanSkip /\ ScanFrame)
    \/ (ScanEnd /\ ScanFrame)

SpecScan == InitScan /\ [][NextScan]_vars

(***************************************************************************)
(* Claim on the file scanner                                               *)
(***************************************************************************)

Decodable(f) ==
    /\ f.kind = "file"
    /\ \/ first_rejected(f.blocks, {"ascii"}) = 0
       \/ first_rejected(f.blocks, {"ascii", "cp1251"}) = 0

RECURSIVE Flatten(_)
Flatten(ss) == IF ss = <<>> THEN <<>> ELSE ss[1] \o Flatten(Tail(ss))

\* C6 -- the scanner's result for a file is the (name, src) pairs of its
\* matching lines, one per matching line and in line order, whether the
\* file was read as utf-8 or, after utf-8 failed anywhere in it, as cp1251;
\* a file that fails in both contributes nothing, and the scan goes on to
\* the remaining entries.
C6_ScanResult ==
    /\ Len(scan_log) = scan_i
    /\ \A i \in 1..Len(scan_log) :
          scan_log[i] = IF Decodable(listing[i])
                        THEN matches_of(lines_of(listing[i].blocks, Len(listing[i].blocks)))
                        ELSE <<>>
    /\ all_results = Flatten(scan_log)
    /\ scan_pc # "scan" => scan_i = Len(listing)

(***************************************************************************)
(* Claim on get_file_extension                                             *)
(***************************************************************************)

\* urlparse raises ValueError on the URL: a bracket without its partner in the
\* host part, or a bracketed host that is no IPv6 or IPvFuture address
UrlRejected == urlparse_path(ext_url) = ValueError

UrlSuffixes ==
    IF UrlRejected THEN {}
    ELSE {ext \in image_extensions : endswith(lower(urlparse_path(ext_url)), ext)}

KnownSubstrings ==
    { <<"j","p","e","g">>, <<"j","p","g">>, <<"p","n","g">>, <<"g","i","f">>,
      <<"w","e","b","p">>, <<"s","v","g">>, <<"b","m","p">> }

\* C5 (as stated) -- for a URL that urlparse accepts: a URL whose path ends in
\* a recognized suffix yields that suffix whatever the content type; a URL
\* without one and a content type containing "png" yields .png; a URL without
\* one and a content type containing none of the known substrings yields .jpg.
C5_AsStated ==
    (ext_pc = "returned" /\ ~ UrlRejected) =>
        /\ \A ext \in UrlSuffixes : ext_ret = ext
        /\ (UrlSuffixes = {} /\ contains(ext_ct, <<"p","n","g">>)) => ext_ret = dot_png
        /\ (UrlSuffixes = {} /\ \A k \in KnownSubstrings : ~ contains(lower(ext_ct), k))
              => ext_ret = dot_jpg

\* C5 (amended) -- as stated for every URL that urlparse accepts, the path
\* being the one urlparse finds (after leading spaces are dropped), except
\* that a content type containing "png" (in any letter case) yields .png for
\* a URL without recognized suffix only when it contains neither "jpeg" nor
\* "jpg"; when it does, the result is .jpg.  A URL that urlparse rejects
\* yields no extension: the call raises ValueError.
C5_ExtensionInference ==
    ext_pc = "returned" =>
        /\ UrlRejected <=> ext_ret = ValueError
        /\ ~ UrlRejected =>
            /\ \A ext \in UrlSuffixes : ext_ret = ext
            /\ ( /\ UrlSuffixes = {}
                 /\ contains(lower(ext_ct), <<"p","n","g">>)
                 /\ ~ contains(lower(ext_ct), <<"j","p","e","g">>)
                 /\ ~ contains(lower(ext_ct), <<"j","p","g">>) ) => ext_ret = dot_png
            /\ ( /\ UrlSuffixes = {}
                 /\ \/ contains(lower(ext_ct), <<"j","p","e","g">>)
                    \/ contains(lower(ext_ct), <<"j","p","g">>) ) => ext_ret = dot_jpg
            /\ ( /\ UrlSuffixes = {}
                 /\ \A k \in KnownSubstrings : ~ contains(lower(ext_ct), k) )
                  => ext_ret = dot_jpg

\* a URL without suffix, a content type that holds "png" and "jpg": .jpg
C5_Witness ==
    /\ ext_pc = "returned"
    /\ ~ UrlRejected
    /\ UrlSuffixes = {}
    /\ contains(ext_ct, <<"p","n","g">>)
    /\ contains(ext_ct, <<"j","p","g">>)
    /\ ext_ret = dot_jpg

====
